---- MODULE Spec2Model ----
(***************************************************************************)
(* The route table of the minima router: registration (Routes.Add),        *)
(* resolution (Routes.Get), the per-bucket matcher (matchRoutes) and the   *)
(* token cleaner (cleanArray).                                             *)
(*                                                                         *)
(* A Go string is modelled as a sequence of one-character strings, so that *)
(* strings.Split, strings.Join, strings.HasPrefix, strings.TrimPrefix and  *)
(* strings.LastIndex are computed character by character as the library    *)
(* computes them.  A Go map is a function whose DOMAIN is its key set; a   *)
(* nil map and an empty map both read as the empty function.               *)
(***************************************************************************)
EXTENDS Naturals, Integers, Sequences, FiniteSets, TLC

VARIABLES
    roots,   \* Routes.roots: map[string][]Route
    call,    \* the arguments of the last Add call, or NoCall
    req,     \* the request being served: the path given to Get and what Get returned, or NoReq
    first    \* history: each pattern registered so far, with the handler of its first Add

vars == <<roots, call, req, first>>

(***************************************************************************)
(* Bounds and input sets                                                   *)
(***************************************************************************)
\* The number of routes the table holds at most: Add is not called beyond it.
MaxRoutes == 2

\* The empty string.
Empty == <<>>

\* Tokens the inputs are built from.
TokA == <<"a">>
TokB == <<"b">>
TokC == <<"c">>
TokX == <<":", "x">>
TokY == <<":", "y">>

NilHandler == "nil"
Handlers == {"h1", "h2"}

(***************************************************************************)
(* The strings package                                                     *)
(***************************************************************************)
\* strings.HasPrefix(s, prefix)
HasPrefix(s, prefix) ==
    /\ Len(prefix) <= Len(s)
    /\ SubSeq(s, 1, Len(prefix)) = prefix

\* strings.TrimPrefix(s, prefix)
TrimPrefix(s, prefix) ==
    IF HasPrefix(s, prefix) THEN SubSeq(s, Len(prefix) + 1, Len(s)) ELSE s

\* strings.LastIndex(s, sep) for a one-character sep: 0-based, -1 when absent
LastIndex(s, sep) ==
    IF \A i \in 1..Len(s) : s[i] # sep
    THEN -1
    ELSE (CHOOSE i \in 1..Len(s) :
              /\ s[i] = sep
              /\ \A j \in (i + 1)..Len(s) : s[j] # sep) - 1

\* strings.Split(s, sep) for a one-character sep: Split("", "/") is [""]
RECURSIVE Split(_, _)
Split(s, sep) ==
    IF \A i \in 1..Len(s) : s[i] # sep
    THEN <<s>>
    ELSE LET i == CHOOSE k \in 1..Len(s) :
                      /\ s[k] = sep
                      /\ \A j \in 1..(k - 1) : s[j] # sep
         IN  <<SubSeq(s, 1, i - 1)>> \o Split(SubSeq(s, i + 1, Len(s)), sep)

\* strings.Join(elems, sep): Join(nil, "/") is ""
RECURSIVE Join(_, _)
Join(elems, sep) ==
    IF Len(elems) = 0 THEN Empty
    ELSE IF Len(elems) = 1 THEN elems[1]
    ELSE elems[1] \o <<sep>> \o Join(Tail(elems), sep)

(***************************************************************************)
(* Inputs: the patterns registered and the paths requested                 *)
(***************************************************************************)
PatternTokens ==
    { <<Empty>>,                                \* ""
      <<Empty, Empty>>,                         \* "/"
      <<Empty, TokA>>,                          \* "/a"
      <<Empty, TokA, Empty>>,                   \* "/a/"
      <<Empty, TokA, Empty, TokB>>,             \* "/a//b"
      <<Empty, TokA, TokX>>,                    \* "/a/:x"
      <<Empty, TokA, TokX, Empty>>,             \* "/a/:x/"
      <<Empty, TokA, TokX, TokB>>,              \* "/a/:x/b"
      <<Empty, TokA, TokX, TokY>>,              \* "/a/:x/:y"
      <<Empty, TokA, TokX, TokB, TokY>>,        \* "/a/:x/b/:y"
      <<Empty, TokA, TokB, TokX>>,              \* "/a/b/:x"
      <<TokA, TokX>>,                           \* "a/:x"
      <<TokX>>,                                 \* ":x"
      <<Empty, TokX>>,                          \* "/:x"
      <<Empty, Empty, TokX>> }                  \* "//:x"

Patterns == { Join(ts, "/") : ts \in PatternTokens }

PathTokens ==
    { <<Empty>>,                                \* ""
      <<Empty, Empty>>,                         \* "/"
      <<Empty, Empty, Empty>>,                  \* "//"
      <<TokA>>,                                 \* "a"
      <<TokA, TokC>>,                           \* "a/c"
      <<Empty, TokA>>,                          \* "/a"
      <<Empty, TokB>>,                          \* "/b"
      <<Empty, TokC>>,                          \* "/c"
      <<Empty, TokA, Empty>>,                   \* "/a/"
      <<Empty, TokA, TokB>>,                    \* "/a/b"
      <<Empty, TokA, TokC>>,                    \* "/a/c"
      <<Empty, TokA, TokC, Empty>>,             \* "/a/c/"
      <<Empty, TokA, Empty, TokB>>,             \* "/a//b"
      <<Empty, TokA, Empty, TokC>>,             \* "/a//c"
      <<Empty, TokA, TokB, TokC>>,              \* "/a/b/c"
      <<Empty, TokA, TokC, TokB>>,              \* "/a/c/b"
      <<Empty, TokA, TokC, TokC>>,              \* "/a/c/c"
      <<Empty, TokA, Empty, TokB, TokC>>,       \* "/a//b/c"
      <<Empty, TokA, TokC, Empty, TokB>>,       \* "/a/c//b"
      <<Empty, TokA, TokC, TokB, TokC>> }       \* "/a/c/b/c"

Paths == { Join(ts, "/") : ts \in PathTokens }

(***************************************************************************)
(* Routes.Add                                                              *)
(***************************************************************************)
\* Faulty variant of AddLoop: the ':' is left in the name of a variable segment.
RECURSIVE AddLoop_KeepColon(_, _, _, _, _)
AddLoop_KeepColon(parts, i, rootParts, varParts, paramsFound) ==
    IF i > Len(parts)
    THEN [rootParts |-> rootParts, varParts |-> varParts]
    ELSE LET p     == parts[i]
             found == paramsFound \/ HasPrefix(p, <<":">>)
         IN  IF found
             THEN AddLoop_KeepColon(parts, i + 1, rootParts,
                                    Append(varParts, [name  |-> p,
                                                      fixed |-> ~HasPrefix(p, <<":">>)]),
                                    found)
             ELSE AddLoop_KeepColon(parts, i + 1, Append(rootParts, p), varParts, found)

\* The loop of Add over parts[i..]: the state it leaves in rootParts and varParts.
RECURSIVE AddLoop(_, _, _, _, _)
AddLoop(parts, i, rootParts, varParts, paramsFound) ==
    IF i > Len(parts)
    THEN [rootParts |-> rootParts, varParts |-> varParts]
    ELSE LET p     == parts[i]
             found == paramsFound \/ HasPrefix(p, <<":">>)
         IN  IF found
             THEN IF HasPrefix(p, <<":">>)
                  THEN AddLoop(parts, i + 1, rootParts,
                               Append(varParts, [name  |-> TrimPrefix(p, <<":">>),
                                                 fixed |-> FALSE]),
                               found)
                  ELSE AddLoop(parts, i + 1, rootParts,
                               Append(varParts, [name |-> p, fixed |-> TRUE]),
                               found)
             ELSE AddLoop(parts, i + 1, Append(rootParts, p), varParts, found)

\* The Route that Add(path, f) builds.
NewRoute(path, f) ==
    LET parts == Split(path, "/")
        split == AddLoop(parts, 1, <<>>, <<>>, FALSE)
        root  == Join(split.rootParts, "/")
    IN  [prefix |-> root, partNames |-> split.varParts, function |-> f]

\* r.roots[root] read on a map: the nil slice when root is no key.
Bucket(rts, key) ==
    IF key \in DOMAIN rts THEN rts[key] ELSE <<>>

\* Faulty variant of AddRoute: the bucket is overwritten, not appended to.
AddRoute_Overwrite(rts, path, f) ==
    LET route == NewRoute(path, f)
        root  == route.prefix
    IN  [k \in (DOMAIN rts) \cup {root} |->
            IF k = root THEN <<route>> ELSE rts[k]]

\* The value of r.roots after Add(path, f).
AddRoute(rts, path, f) ==
    LET route == NewRoute(path, f)
        root  == route.prefix
    IN  [k \in (DOMAIN rts) \cup {root} |->
            IF k = root THEN Append(Bucket(rts, root), route) ELSE rts[k]]

(***************************************************************************)
(* cleanArray and matchRoutes                                              *)
(***************************************************************************)
\* Faulty variant of cleanArray: the empty strings are kept.
cleanArray_Identity(a) == a

\* cleanArray(a): the non-empty strings of a, in order.
RECURSIVE cleanArray(_)
cleanArray(a) ==
    IF Len(a) = 0 THEN <<>>
    ELSE IF Head(a) # Empty
         THEN <<Head(a)>> \o cleanArray(Tail(a))
         ELSE cleanArray(Tail(a))

\* paramNames[name] = value
MapSet(m, name, value) ==
    [k \in (DOMAIN m) \cup {name} |-> IF k = name THEN value ELSE m[k]]

\* Faulty variant of MatchParts: a fixed segment is not compared.
RECURSIVE MatchParts_NoFixed(_, _, _, _)
MatchParts_NoFixed(partNames, params, i, paramNames) ==
    IF i > Len(partNames)
    THEN [outcome |-> "match", paramNames |-> paramNames]
    ELSE IF i > Len(params)
    THEN [outcome |-> "panic", paramNames |-> paramNames]
    ELSE IF partNames[i].fixed
    THEN MatchParts_NoFixed(partNames, params, i + 1, paramNames)
    ELSE MatchParts_NoFixed(partNames, params, i + 1,
                            MapSet(paramNames, partNames[i].name, params[i]))

\* The inner loop of matchRoutes over r.partNames[i..]: "next" on a fixed
\* segment that differs (continue outer), "match" at the end of the loop,
\* "panic" when params[i] is read outside params.
RECURSIVE MatchParts(_, _, _, _)
MatchParts(partNames, params, i, paramNames) ==
    IF i > Len(partNames)
    THEN [outcome |-> "match", paramNames |-> paramNames]
    ELSE IF i > Len(params)
    THEN [outcome |-> "panic", paramNames |-> paramNames]
    ELSE IF partNames[i].fixed
    THEN IF params[i] # partNames[i].name
         THEN [outcome |-> "next", paramNames |-> paramNames]
         ELSE MatchParts(partNames, params, i + 1, paramNames)
    ELSE MatchParts(partNames, params, i + 1,
                    MapSet(paramNames, partNames[i].name, params[i]))

\* Faulty variant of MatchFrom: the routes are tried from the last added to
\* the first.
RECURSIVE MatchFrom_LastFirst(_, _, _)
MatchFrom_LastFirst(path, routes, k) ==
    IF k > Len(routes)
    THEN [function |-> NilHandler, params |-> <<>>, found |-> FALSE, fault |-> "none"]
    ELSE LET r      == routes[Len(routes) + 1 - k]
             params == Split(TrimPrefix(TrimPrefix(path, r.prefix), <<"/">>), "/")
             valid  == cleanArray(params)
         IN  IF Len(valid) = Len(r.partNames)
             THEN LET m == MatchParts(r.partNames, params, 1, <<>>)
                  IN  IF m.outcome = "match"
                      THEN [function |-> r.function, params |-> m.paramNames,
                            found |-> TRUE, fault |-> "none"]
                      ELSE IF m.outcome = "panic"
                      THEN [function |-> NilHandler, params |-> <<>>,
                            found |-> FALSE, fault |-> "panic"]
                      ELSE MatchFrom_LastFirst(path, routes, k + 1)
             ELSE MatchFrom_LastFirst(path, routes, k + 1)

\* The loop of matchRoutes over routes[k..].
RECURSIVE MatchFrom(_, _, _)
MatchFrom(path, routes, k) ==
    IF k > Len(routes)
    THEN [function |-> NilHandler, params |-> <<>>, found |-> FALSE, fault |-> "none"]
    ELSE LET r      == routes[k]
             params == Split(TrimPrefix(TrimPrefix(path, r.prefix), <<"/">>), "/")
             valid  == cleanArray(params)
         IN  IF Len(valid) = Len(r.partNames)
             THEN LET m == MatchParts(r.partNames, params, 1, <<>>)
                  IN  IF m.outcome = "match"
                      THEN [function |-> r.function, params |-> m.paramNames,
                            found |-> TRUE, fault |-> "none"]
                      ELSE IF m.outcome = "panic"
                      THEN [function |-> NilHandler, params |-> <<>>,
                            found |-> FALSE, fault |-> "panic"]
                      ELSE MatchFrom(path, routes, k + 1)
             ELSE MatchFrom(path, routes, k + 1)

\* matchRoutes(path, routes)
matchRoutes(path, routes) == MatchFrom(path, routes, 1)

(***************************************************************************)
(* Routes.Get                                                              *)
(***************************************************************************)
\* The iterations of the loop of Get after which the model reports the loop
\* as not terminating.
MaxIter(path) == Len(path) + 2

\* What Get returns, with the bucket it handed to matchRoutes and the number
\* of map probes it made.
GetResult(m, consulted, key, probes) ==
    [function |-> m.function, params |-> m.params, found |-> m.found,
     fault |-> m.fault, consulted |-> consulted, key |-> key, probes |-> probes]

NotFound == [function |-> NilHandler, params |-> <<>>, found |-> FALSE, fault |-> "none"]

Hang == [function |-> NilHandler, params |-> <<>>, found |-> FALSE, fault |-> "hang"]

\* Faulty variant of GetLoop: a bucket without a match does not end the
\* lookup, the shorter prefixes are tried.
RECURSIVE GetLoop_Fallback(_, _, _, _)
GetLoop_Fallback(rts, path, remaining, probes) ==
    IF probes >= MaxIter(path)
    THEN GetResult(Hang, FALSE, Empty, probes)
    ELSE IF remaining \in DOMAIN rts /\ matchRoutes(path, rts[remaining]).found
    THEN GetResult(matchRoutes(path, rts[remaining]), TRUE, remaining, probes + 1)
    ELSE IF Len(remaining) < 2
    THEN GetResult(NotFound, FALSE, Empty, probes + 1)
    ELSE LET index == LastIndex(remaining, "/")
         IN  IF index < 0
             THEN GetResult(NotFound, FALSE, Empty, probes + 1)
             ELSE IF index > 0
             THEN GetLoop_Fallback(rts, path, SubSeq(remaining, 1, index), probes + 1)
             ELSE GetLoop_Fallback(rts, path, <<"/">>, probes + 1)

\* Faulty variant of GetLoop: the bucket "/" is not tried when the last '/'
\* of `remaining` is its first character.
RECURSIVE GetLoop_NoRoot(_, _, _, _)
GetLoop_NoRoot(rts, path, remaining, probes) ==
    IF probes >= MaxIter(path)
    THEN GetResult(Hang, FALSE, Empty, probes)
    ELSE IF remaining \in DOMAIN rts
    THEN GetResult(matchRoutes(path, rts[remaining]), TRUE, remaining, probes + 1)
    ELSE IF Len(remaining) < 2
    THEN GetResult(NotFound, FALSE, Empty, probes + 1)
    ELSE LET index == LastIndex(remaining, "/")
         IN  IF index <= 0
             THEN GetResult(NotFound, FALSE, Empty, probes + 1)
             ELSE GetLoop_NoRoot(rts, path, SubSeq(remaining, 1, index), probes + 1)

\* Faulty variant of GetLoop: the test len(remaining) < 2 is missing.
RECURSIVE GetLoop_NoLenCheck(_, _, _, _)
GetLoop_NoLenCheck(rts, path, remaining, probes) ==
    IF probes >= MaxIter(path)
    THEN GetResult(Hang, FALSE, Empty, probes)
    ELSE IF remaining \in DOMAIN rts
    THEN GetResult(matchRoutes(path, rts[remaining]), TRUE, remaining, probes + 1)
    ELSE LET index == LastIndex(remaining, "/")
         IN  IF index < 0
             THEN GetResult(NotFound, FALSE, Empty, probes + 1)
             ELSE IF index > 0
             THEN GetLoop_NoLenCheck(rts, path, SubSeq(remaining, 1, index), probes + 1)
             ELSE GetLoop_NoLenCheck(rts, path, <<"/">>, probes + 1)

\* The loop of Get with `remaining` as it stands and `probes` map probes made.
RECURSIVE GetLoop(_, _, _, _)
GetLoop(rts, path, remaining, probes) ==
    IF probes >= MaxIter(path)
    THEN GetResult(Hang, FALSE, Empty, probes)
    ELSE IF remaining \in DOMAIN rts
    THEN GetResult(matchRoutes(path, rts[remaining]), TRUE, remaining, probes + 1)
    ELSE IF Len(remaining) < 2
    THEN GetResult(NotFound, FALSE, Empty, probes + 1)
    ELSE LET index == LastIndex(remaining, "/")
         IN  IF index < 0
             THEN GetResult(NotFound, FALSE, Empty, probes + 1)
             ELSE IF index > 0
             THEN GetLoop(rts, path, SubSeq(remaining, 1, index), probes + 1)
             ELSE GetLoop(rts, path, <<"/">>, probes + 1)

\* r.Get(path)
GetRoute(rts, path) == GetLoop(rts, path, path, 0)

(***************************************************************************)
(* The state machine                                                       *)
(***************************************************************************)
NoCall == [op |-> "none", path |-> Empty, function |-> NilHandler]
NoReq  == [op |-> "none"]

\* The number of routes of the table.
RECURSIVE CountRoutes(_, _)
CountRoutes(rts, keys) ==
    IF keys = {} THEN 0
    ELSE LET k == CHOOSE x \in keys : TRUE
         IN  Len(rts[k]) + CountRoutes(rts, keys \ {k})

NumRoutes == CountRoutes(roots, DOMAIN roots)

\* NewRoutes()
Init ==
    /\ roots = <<>>
    /\ call = NoCall
    /\ req = NoReq
    /\ first = <<>>

\* r.Add(path, f), called while no request is being served
Add(path, f) ==
    /\ req.op = "none"
    /\ NumRoutes < MaxRoutes
    /\ roots' = AddRoute(roots, path, f)
    /\ call' = [op |-> "Add", path |-> path, function |-> f]
    /\ first' = IF path \in DOMAIN first THEN first ELSE MapSet(first, path, f)
    /\ UNCHANGED req

\* ServeHTTP up to the return of r.Get(path)
Get(path) ==
    /\ req.op = "none"
    /\ req' = [op |-> "Get", path |-> path, ret |-> GetRoute(roots, path)]
    /\ UNCHANGED <<roots, call, first>>

\* ServeHTTP after r.Get: the handler or the not-found response runs and the
\* request ends
Respond ==
    /\ req.op = "Get"
    /\ req' = NoReq
    /\ UNCHANGED <<roots, call, first>>

Next ==
    \/ \E path \in Patterns, f \in Handlers : Add(path, f)
    \/ \E path \in Paths : Get(path)
    \/ Respond

Spec == Init /\ [][Next]_vars

(***************************************************************************)
(* Vocabulary of the properties                                            *)
(***************************************************************************)
\* A request is being served: Get has returned and req holds its result.
Served == req.op = "Get"

\* What Get returned to its caller: (handler, parameter map, found).
Outcome(r) == <<r.function, r.params, r.found>>

\* A token that marks a parameter.
IsParam(tok) == Len(tok) >= 1 /\ tok[1] = ":"

\* The pattern has no parameter token.
IsPlain(pattern) ==
    \A i \in 1..Len(Split(pattern, "/")) : ~IsParam(Split(pattern, "/")[i])

\* The number of '/' in s.
Slashes(s) == Cardinality({i \in 1..Len(s) : s[i] = "/"})

\* The non-empty tokens of ts, in order.
NonEmpty(ts) == SelectSeq(ts, LAMBDA t : t # Empty)

\* The tokens of path after prefix (and one '/'), empty tokens included.
SuffixTokens(path, prefix) ==
    Split(TrimPrefix(TrimPrefix(path, prefix), <<"/">>), "/")

\* The entry satisfies the path: the path starts with the entry's prefix, it
\* has as many non-empty tokens after the prefix as the entry has segments,
\* and every fixed segment equals the token at its index.
Satisfies(route, path) ==
    /\ HasPrefix(path, route.prefix)
    /\ Len(NonEmpty(SuffixTokens(path, route.prefix))) = Len(route.partNames)
    /\ \A i \in 1..Len(route.partNames) :
           route.partNames[i].fixed =>
               route.partNames[i].name = SuffixTokens(path, route.prefix)[i]

\* The largest element of a non-empty set of numbers, and the smallest.
MaxOf(S) == CHOOSE x \in S : \A y \in S : y <= x
MinOf(S) == CHOOSE x \in S : \A y \in S : x <= y

\* The map binding each variable segment's name to the token at its index (a
\* name that occurs twice is bound to the token of its last occurrence).
Captures(route, path) ==
    LET vs == {i \in 1..Len(route.partNames) : ~route.partNames[i].fixed}
    IN  [n \in {route.partNames[i].name : i \in vs} |->
            SuffixTokens(path, route.prefix)
                [MaxOf({i \in vs : route.partNames[i].name = n})]]

\* The path cut before each of its '/' but the first character.
Truncations(path) ==
    {SubSeq(path, 1, i - 1) : i \in {j \in 2..Len(path) : path[j] = "/"}}

\* The keys Get probes for path: the path, its truncations, and "/" when the
\* path begins with '/' and has two characters or more.
ProbedKeys(path) ==
    {path} \cup Truncations(path)
           \cup (IF Len(path) >= 2 /\ path[1] = "/" THEN {<<"/">>} ELSE {})

\* The longest of a non-empty set of strings.
Longest(S) == CHOOSE k \in S : \A j \in S : Len(j) <= Len(k)

\* A bucket is selected for path, and its key: the first probed key that exists.
HasSelected(path) == ProbedKeys(path) \cap DOMAIN roots # {}
SelectedKey(path) == Longest(ProbedKeys(path) \cap DOMAIN roots)

\* The entries of the selected bucket that satisfy the path, by position.
SatisfyingIn(key, path) ==
    {i \in 1..Len(roots[key]) : Satisfies(roots[key][i], path)}

(***************************************************************************)
(* C1                                                                      *)
(***************************************************************************)
\* C1 as stated: Get(path) returns found = false if and only if no Route
\* Entry in any bucket of the table satisfies the path.
C1_NotFoundIffNoEntryAnywhere ==
    Served =>
        (req.ret.found = FALSE <=>
            ~ \E key \in DOMAIN roots : \E i \in 1..Len(roots[key]) :
                  Satisfies(roots[key][i], req.path))

\* C1 as amended: Get(path) returns found = false if and only if no Route
\* Entry of the one bucket Get selects for the path (the first existing key
\* among the probed keys) satisfies the path; no bucket selected counts as
\* no entry.
C1_NotFoundIffNoEntryInSelected ==
    Served =>
        (req.ret.found = FALSE <=>
            ~ (/\ HasSelected(req.path)
               /\ SatisfyingIn(SelectedKey(req.path), req.path) # {}))

\* C1's case: the selected bucket has no entry that satisfies the path and
\* Get returns not found, although an entry of a bucket with a shorter
\* probed key satisfies the path.
C1_Witness ==
    /\ Served
    /\ ~req.ret.found
    /\ HasSelected(req.path)
    /\ \E key \in (ProbedKeys(req.path) \cap DOMAIN roots) \ {SelectedKey(req.path)} :
           \E i \in 1..Len(roots[key]) : Satisfies(roots[key][i], req.path)

(***************************************************************************)
(* C2                                                                      *)
(***************************************************************************)
\* C2: for a pattern p without parameter token, first registered with
\* handler h, Get(p) returns (h, empty parameter map, true), whatever else
\* the table holds.
C2_RoundTrip ==
    (Served /\ req.path \in DOMAIN first /\ IsPlain(req.path)) =>
        Outcome(req.ret) = <<first[req.path], <<>>, TRUE>>

\* C2's case: Get of a registered plain pattern with an empty token (a
\* trailing or doubled slash, "" or "/"), in a table holding an earlier entry
\* with segments in the same bucket.
C2_Witness ==
    /\ Served
    /\ req.path \in DOMAIN first
    /\ IsPlain(req.path)
    /\ \E i \in 1..Len(Split(req.path, "/")) : Split(req.path, "/")[i] = Empty
    /\ req.ret.consulted
    /\ Len(roots[req.ret.key]) = 2
    /\ roots[req.ret.key][1].partNames # <<>>
    /\ req.ret.found

(***************************************************************************)
(* C3                                                                      *)
(***************************************************************************)
\* The tokens of a pattern after its leading '/', if it has one.
Body(pt) == IF Len(pt) >= 1 /\ pt[1] = Empty THEN Tail(pt) ELSE pt

\* One or more non-empty literal tokens, then a parameter token, then
\* non-empty literal or parameter tokens; the parameter names distinct.
WellFormed(pt) ==
    LET b == Body(pt)
    IN  /\ \A i \in 1..Len(b) : b[i] # Empty
        /\ \E n \in 2..Len(b) :
               /\ IsParam(b[n])
               /\ \A i \in 1..(n - 1) : ~IsParam(b[i])
        /\ \A i, j \in 1..Len(b) : (IsParam(b[i]) /\ b[i] = b[j]) => i = j

\* qt is pt with every parameter token replaced by a non-empty value.
Instance(pt, qt) ==
    /\ Len(qt) = Len(pt)
    /\ \A i \in 1..Len(pt) :
           IF IsParam(pt[i]) THEN qt[i] # Empty ELSE qt[i] = pt[i]

\* The map binding each parameter name of pt to the value at its place in qt.
Bindings(pt, qt) ==
    LET ps == {i \in 1..Len(pt) : IsParam(pt[i])}
    IN  [n \in {Tail(pt[i]) : i \in ps} |->
            qt[CHOOSE i \in ps : Tail(pt[i]) = n]]

OnlyRoute(pattern) ==
    /\ NumRoutes = 1
    /\ call.op = "Add"
    /\ call.path = pattern

\* C4: whenever Get returns found = true, an entry of the selected bucket
\* with the returned handler has as many segments as the path has non-empty
\* tokens after the prefix and every fixed segment of it equals the path
\* token at the same index; with only "/a/:x/b" registered, Get("/a/c/b")
\* returns (h, {x: "c"}, true) and Get("/a/c/c") returns not found.
C4_FixedEnforced ==
    /\ (Served /\ req.ret.found) =>
           /\ HasSelected(req.path)
           /\ \E i \in SatisfyingIn(SelectedKey(req.path), req.path) :
                  roots[SelectedKey(req.path)][i].function = req.ret.function
    /\ (Served /\ OnlyRoute(Join(<<Empty, TokA, TokX, TokB>>, "/"))) =>
           /\ req.path = Join(<<Empty, TokA, TokC, TokB>>, "/") =>
                  Outcome(req.ret) = <<call.function, MapSet(<<>>, <<"x">>, TokC), TRUE>>
           /\ req.path = Join(<<Empty, TokA, TokC, TokC>>, "/") =>
                  ~req.ret.found

\* C4's case: a path whose token count fits an entry with a fixed segment
\* and whose token at the fixed segment's index differs is not found.
C4_Witness ==
    /\ Served
    /\ ~req.ret.found
    /\ HasSelected(req.path)
    /\ \E i \in 1..Len(roots[SelectedKey(req.path)]) :
           LET r == roots[SelectedKey(req.path)][i]
           IN  /\ Len(NonEmpty(SuffixTokens(req.path, r.prefix))) = Len(r.partNames)
               /\ \E j \in 1..Len(r.partNames) :
                      /\ r.partNames[j].fixed
                      /\ r.partNames[j].name # Empty
                      /\ SuffixTokens(req.path, r.prefix)[j] # Empty
                      /\ r.partNames[j].name # SuffixTokens(req.path, r.prefix)[j]

(***************************************************************************)
(* C5                                                                      *)
(***************************************************************************)
\* C5: within the selected bucket, Get returns the handler (and the
\* captures) of the first entry in Add order that satisfies the path, and
\* not found when none does; an entry whose segment count differs from the
\* token count is never returned.
C5_FirstInOrder ==
    (Served /\ HasSelected(req.path)) =>
        LET key == SelectedKey(req.path)
            sat == SatisfyingIn(key, req.path)
        IN  IF sat = {}
            THEN ~req.ret.found
            ELSE Outcome(req.ret) =
                     <<roots[key][MinOf(sat)].function,
                       Captures(roots[key][MinOf(sat)], req.path),
                       TRUE>>

\* C5's case: two entries of one bucket with different handlers both
\* satisfy the path and the earlier one's handler is returned.
C5_Witness ==
    /\ Served
    /\ HasSelected(req.path)
    /\ SatisfyingIn(SelectedKey(req.path), req.path) = {1, 2}
    /\ roots[SelectedKey(req.path)][1].function # roots[SelectedKey(req.path)][2].function
    /\ roots[SelectedKey(req.path)][1].partNames # <<>>
    /\ req.ret.function = roots[SelectedKey(req.path)][1].function

(***************************************************************************)
(* C6                                                                      *)
(***************************************************************************)
\* The keys of C6 as stated, but "/": the path and its truncations.
KeysBeforeRoot(path) == ({path} \cup Truncations(path)) \ {<<"/">>}

\* The first existing key of the sequence of C6 as stated: the path, its
\* truncations from the longest to the shortest, then "/".
HasStatedKey(path) ==
    (KeysBeforeRoot(path) \cup {<<"/">>}) \cap DOMAIN roots # {}
StatedKey(path) ==
    IF KeysBeforeRoot(path) \cap DOMAIN roots # {}
    THEN Longest(KeysBeforeRoot(path) \cap DOMAIN roots)
    ELSE <<"/">>

\* C6 as stated: Get consults exactly the first existing key in the
\* sequence path, its truncations, then "/", returns the match of the full
\* path against that bucket, and returns (nil, nil, false) if no key of the
\* sequence exists.
C6_OneBucketAsStated ==
    Served =>
        IF HasStatedKey(req.path)
        THEN /\ req.ret.consulted
             /\ req.ret.key = StatedKey(req.path)
             /\ Outcome(req.ret) =
                    Outcome(matchRoutes(req.path, roots[StatedKey(req.path)]))
        ELSE /\ ~req.ret.consulted
             /\ Outcome(req.ret) = <<NilHandler, <<>>, FALSE>>

\* C6 as amended: the sequence ends with "/" only for a path that begins
\* with '/' and has two characters or more; Get consults exactly the first
\* existing key of it, returns the match of the full path against that
\* bucket, and returns (nil, nil, false) if no key of the sequence exists.
C6_OneBucket ==
    Served =>
        IF HasSelected(req.path)
        THEN /\ req.ret.consulted
             /\ req.ret.key = SelectedKey(req.path)
             /\ Outcome(req.ret) =
                    Outcome(matchRoutes(req.path, roots[SelectedKey(req.path)]))
        ELSE /\ ~req.ret.consulted
             /\ Outcome(req.ret) = <<NilHandler, <<>>, FALSE>>

\* C6's case: the bucket "/" is reached by truncation, after a longer key
\* was probed and is absent, and the path is matched there.
C6_Witness ==
    /\ Served
    /\ req.ret.consulted
    /\ req.ret.key = <<"/">>
    /\ Len(req.path) >= 2
    /\ req.ret.found

(***************************************************************************)
(* C7                                                                      *)
(***************************************************************************)
\* C7: Get ends after at most (number of '/' in path) + 1 probes, reads no
\* token outside the raw token sequence, and returns a match or not found.
C7_Total ==
    Served =>
        /\ req.ret.fault = "none"
        /\ req.ret.probes <= Slashes(req.path) + 1
        /\ req.ret.found \in BOOLEAN

\* C7's case: a path with an empty token is matched after as many probes as
\* the bound allows.
C7_Witness ==
    /\ Served
    /\ req.ret.found
    /\ req.ret.probes = Slashes(req.path) + 1
    /\ req.ret.probes >= 3
    /\ \E i \in 1..Len(SuffixTokens(req.path, req.ret.key)) :
           SuffixTokens(req.path, req.ret.key)[i] = Empty

(***************************************************************************)
(* C8                                                                      *)
(***************************************************************************)
\* The place of the first parameter token of ts, Len(ts) + 1 without one.
FirstParam(ts) ==
    MinOf({i \in 1..Len(ts) : IsParam(ts[i])} \cup {Len(ts) + 1})

\* The static prefix of a pattern: its tokens before the first parameter
\* token, rejoined with '/'.
StaticPrefix(pattern) ==
    LET ts == Split(pattern, "/")
    IN  Join(SubSeq(ts, 1, FirstParam(ts) - 1), "/")

\* The segments of a pattern: one for every token from the first parameter
\* token on, a literal token fixed, a parameter token with its ':' stripped.
SegmentsOf(pattern) ==
    LET ts == Split(pattern, "/")
        n  == FirstParam(ts)
    IN  [i \in 1..(Len(ts) + 1 - n) |->
            IF IsParam(ts[n + i - 1])
            THEN [name |-> Tail(ts[n + i - 1]), fixed |-> FALSE]
            ELSE [name |-> ts[n + i - 1], fixed |-> TRUE]]

\* C8: Add(pattern, h) appends exactly one entry, {static prefix, segments,
\* h}, at the end of the bucket keyed by the pattern's static prefix
\* (created if absent) and leaves every other bucket and every existing
\* entry as it is; Get (and the response that follows it) leaves the table
\* unchanged.
C8_AppendOnly ==
    [][ IF req' # req
        THEN roots' = roots
        ELSE LET key   == StaticPrefix(call'.path)
                 entry == [prefix    |-> key,
                           partNames |-> SegmentsOf(call'.path),
                           function  |-> call'.function]
             IN  /\ call'.op = "Add"
                 /\ DOMAIN roots' = DOMAIN roots \cup {key}
                 /\ roots'[key] = Append(Bucket(roots, key), entry)
                 /\ \A k \in DOMAIN roots \ {key} : roots'[k] = roots[k] ]_vars

\* C8's case: a request is served from a table in which the last Add
\* appended a second entry to an existing bucket, next to another bucket.
C8_Witness ==
    /\ Served
    /\ call.op = "Add"
    /\ StaticPrefix(call.path) \in DOMAIN roots
    /\ Len(roots[StaticPrefix(call.path)]) = 2
    /\ roots[StaticPrefix(call.path)][2].function = call.function
    /\ roots[StaticPrefix(call.path)][1].function # call.function

(***************************************************************************)
(* C9                                                                      *)
(***************************************************************************)
\* C9: after Add("/:x", h) on an empty table, Get("/c") returns
\* (h, {x: "c"}, true); and for every entry with segments stored under the
\* empty-string prefix there is a path beginning with '/' for which Get
\* returns that entry's handler: when the served path, which begins with '/'
\* and satisfies the entry, is not that path, another one is.
C9_LeadingParamResolvable ==
    /\ (Served /\ OnlyRoute(Join(<<Empty, TokX>>, "/"))
               /\ req.path = Join(<<Empty, TokC>>, "/")) =>
           Outcome(req.ret) = <<call.function, MapSet(<<>>, <<"x">>, TokC), TRUE>>
    /\ (Served /\ HasPrefix(req.path, <<"/">>)) =>
           \A i \in 1..Len(Bucket(roots, Empty)) :
               (/\ roots[Empty][i].partNames # <<>>
                /\ Satisfies(roots[Empty][i], req.path)) =>
                   \E path \in Paths :
                       /\ HasPrefix(path, <<"/">>)
                       /\ GetRoute(roots, path).found
                       /\ GetRoute(roots, path).function = roots[Empty][i].function

(***************************************************************************)
(* C10                                                                     *)
(***************************************************************************)
\* The entry satisfies the path on its cleaned tokens: as many non-empty
\* tokens as segments, and every fixed segment equal to the non-empty token
\* at its index.
SatisfiesCleaned(route, path) ==
    /\ Len(NonEmpty(SuffixTokens(path, route.prefix))) = Len(route.partNames)
    /\ \A i \in 1..Len(route.partNames) :
           route.partNames[i].fixed =>
               route.partNames[i].name = NonEmpty(SuffixTokens(path, route.prefix))[i]

\* The map binding each variable segment's name to the non-empty token at
\* its index.
CapturesCleaned(route, path) ==
    LET vs == {i \in 1..Len(route.partNames) : ~route.partNames[i].fixed}
    IN  [n \in {route.partNames[i].name : i \in vs} |->
            NonEmpty(SuffixTokens(path, route.prefix))
                [MaxOf({i \in vs : route.partNames[i].name = n})]]

\* The result of the matcher run on the cleaned token sequence.
MatchCleaned(path, routes) ==
    LET sat == {i \in 1..Len(routes) : SatisfiesCleaned(routes[i], path)}
    IN  IF sat = {}
        THEN <<NilHandler, <<>>, FALSE>>
        ELSE <<routes[MinOf(sat)].function,
               CapturesCleaned(routes[MinOf(sat)], path),
               TRUE>>

\* C10: Get's result equals the result of the matcher run on the cleaned
\* token sequence of the selected bucket, and no captured value is the empty
\* string.
C10_EqualsCleanedMatcher ==
    Served =>
        /\ HasSelected(req.path) =>
               Outcome(req.ret) = MatchCleaned(req.path, roots[SelectedKey(req.path)])
        /\ \A n \in DOMAIN req.ret.params : req.ret.params[n] # Empty

====
